---------------------------- MODULE Spec2Model ----------------------------
(***************************************************************************)
(* Model of the real-time layer of the AIBot backend: the WebSocket        *)
(* ConnectionManager (websocket/connection_manager.py), the WebSocket      *)
(* endpoint (websocket/router.py) and the channel message pipeline         *)
(* (ai_service/chat_service.py, channels/router.py, ai_service/router.py). *)
(*                                                                         *)
(* The server is one asyncio event loop.  A task runs without interruption *)
(* until it reaches an await that performs I/O (accept, send_text,         *)
(* receive_text, close); only there may another task run.  The variable    *)
(* cur holds the task that owns the loop (0 when the loop is free), so a   *)
(* block of code between two I/O awaits is atomic although the model       *)
(* takes it in several steps.  Every task has a call stack of frames,      *)
(* the running function on top (Head).                                     *)
(***************************************************************************)
EXTENDS Integers, Sequences, FiniteSets, TLC

\* ------------------------------------------------------------------ bounds
MaxCloses == 1         \* peer-initiated closes in one behaviour
MaxPosts == 1          \* HTTP requests in one behaviour
MaxFrames == 1         \* inbound client frames in one behaviour
MaxStalled == 1        \* peers that stop reading
MaxCalls == 4          \* calls of a provider's API one run of outcomes covers
MaxDead == 2           \* peers that have died unnoticed in an initial state

\* ai_providers.py lines 39 and 95: stop=stop_after_attempt(3)
stop_after_attempt == 3

\* -------------------------------------------------------------- universes
WS == {1, 2, 3}        \* connection handles; the handler task of w is task w
ReqTasks == {4, 5}     \* tasks that serve HTTP requests
Tasks == WS \cup ReqTasks
Channels == {1, 2}
Users == {1, 2}

\* the handshakes a client may present on each connection: <<channel, token>>
HandshakeInputs(w) ==
  IF w = 1 THEN {<<1, "tok1">>}
  ELSE IF w = 2 THEN {<<1, "tok2">>, <<1, "bad">>, <<1, "None">>}
  ELSE {<<1, "tok2">>, <<2, "tok2">>}

\* channels/service.py is_user_member: the rows of channel_members
Members == {<<1, 1>>, <<1, 2>>, <<2, 1>>}      \* <<channel, user>>

\* the chat requests a client may post: <<user, channel, message text>>
PostInputs == {<<1, 1, "hello">>, <<2, 1, "hello">>, <<2, 2, "hello">>,
               <<1, 1, "blank">>}
AiOutcomes == {"ok", "raise"}

\* the tokens that name a user of the master database
ValidTokens == {"tok1", "tok2"}

\* a resolver that takes any token for user 2
TokenUserLenient(tok) == IF tok = "tok1" THEN 1 ELSE 2

\* auth/websocket_auth.py: the user a token resolves to, 0 when the token
\* is rejected (get_current_user_from_token raises).
TokenUser(tok) == IF tok = "tok1" THEN 1 ELSE IF tok = "tok2" THEN 2 ELSE 0

VARIABLES
  active_connections,  \* ConnectionManager.active_connections: channel -> list
  connection_users,    \* ConnectionManager.connection_users: ws -> user info
  stack,               \* call stack of every task
  cur,                 \* task that owns the event loop, 0 if none
  dead,                \* connections whose transport is closed (send raises)
  received,            \* events each client has been sent successfully
  frames_left,         \* inbound client frames the clients may still send
  closes_left,         \* times a peer may still close its connection
  posts_left,          \* HTTP requests that may still arrive
  closed_code,         \* close code the server sent to a connection (0: none)
  stalled,             \* connections whose peer has stopped reading (send never completes)
  disc_done,           \* connections for which a disconnect call has returned
  ever_reg,            \* user info of every connection connect() has registered
  left_calls,          \* user_left broadcasts issued per connection
  settings,            \* core/settings.py: AI_CHAT_ENABLED, AI_PROVIDER
  store,               \* rows committed to the tenant database, oldest first
  ai_calls,            \* calls made to the AI provider
  issued,              \* message dicts of the new_message broadcasts, in call order
  response             \* what each HTTP request has returned (status 0: nothing yet)

vars == <<active_connections, connection_users, stack, cur, dead, received,
          frames_left, closes_left, posts_left, closed_code, disc_done,
          ever_reg, left_calls, settings, store, ai_calls, response,
          stalled, issued>>

\* the variables of the message pipeline, and the budgets of the environment
pipeVars == <<settings, store, ai_calls, response, posts_left, issued>>
envVars == <<frames_left, closes_left, closed_code, stalled>>

\* ------------------------------------------------------------ list helpers
IndexOf(list, x) == CHOOSE i \in 1..Len(list) :
                       list[i] = x /\ \A j \in 1..(i-1) : list[j] # x

InList(list, x) == \E i \in 1..Len(list) : list[i] = x

\* a remove that leaves the list as it is
ListRemoveNothing(list, x) == list

\* list.remove(x): drops the first occurrence
ListRemove(list, x) ==
  LET i == IndexOf(list, x)
  IN  SubSeq(list, 1, i-1) \o SubSeq(list, i+1, Len(list))

DictDel(d, k) == [x \in (DOMAIN d) \ {k} |-> d[x]]
DictSet(d, k, v) == [x \in (DOMAIN d) \cup {k} |-> IF x = k THEN v ELSE d[x]]

NoDup(list) == \A i, j \in 1..Len(list) : i # j => list[i] # list[j]
Elems(list) == {list[i] : i \in 1..Len(list)}

\* ------------------------------------------------------------------ events
\* timestamp: whether the envelope carries a timestamp key
UserJoined(uid) == [type |-> "user_joined", user_id |-> uid, timestamp |-> TRUE]
UserLeft(uid)   == [type |-> "user_left", user_id |-> uid, timestamp |-> TRUE]
OnlineUsers(us) == [type |-> "online_users", users |-> us, timestamp |-> FALSE]
Pong            == [type |-> "pong", timestamp |-> TRUE]
MessageRead(uid) == [type |-> "message_read", user_id |-> uid, timestamp |-> FALSE]
NewMessage(m)   == [type |-> "new_message", message |-> m, timestamp |-> TRUE]

\* json.dumps(message): raises TypeError on a datetime value; the only
\* payload that can carry one is the message dict of a new_message event.
JsonDumpsOk(ev) ==
  IF ev.type = "new_message" THEN ev.message.created_at # "datetime" ELSE TRUE

\* ------------------------------------------------------------------ frames
IdleFrame == [fn |-> "idle", pc |-> "start"]
EndpointFrame(ws) ==
  [fn |-> "websocket_endpoint", pc |-> "start", ws |-> ws, ch |-> 0, uid |-> 0,
   tok |-> "None"]
ConnectFrame(ws, ch, uid) ==
  [fn |-> "connect", pc |-> "accept", ws |-> ws, ch |-> ch, uid |-> uid]
DisconnectFrame(ws) ==
  [fn |-> "disconnect", pc |-> "begin", ws |-> ws]
SendPersonalFrame(ws, ev) ==
  [fn |-> "send_personal_message", pc |-> "send", ws |-> ws, msg |-> ev]
\* exws: exclude_websocket (0: None); exuid: exclude_user_id (0: not used).
\* idx, rem, target are the loop's locals; snap, tried, failed, cut record
\* the roster at the call, the connections send_text was called for, the
\* connections marked for removal, and whether a connection was removed
\* from the channel while the loop was suspended on a send.
BroadcastFrame(fn, ch, ev, exws, exuid) ==
  [fn |-> fn, pc |-> "enter", ch |-> ch, msg |-> ev, exws |-> exws,
   exuid |-> exuid, idx |-> 0, rem |-> <<>>, det |-> FALSE, target |-> 0,
   snap |-> <<>>, tried |-> {}, failed |-> {}, cut |-> FALSE]

BroadcastFns == {"broadcast_to_channel", "broadcast_new_message_exclude_user"}

\* program points at which a task is suspended on I/O
AwaitPcs == {"start", "accept", "send", "recv", "close"}

Top(t) == Head(stack[t])
CanRun(t) == /\ stack[t] # <<>>
             /\ \/ cur = t
                \/ cur = 0 /\ Top(t).pc \in AwaitPcs
At(t, fn, pc) == CanRun(t) /\ Top(t).fn = fn /\ Top(t).pc = pc

Owner(s, t) == IF s = <<>> \/ Head(s).pc \in AwaitPcs THEN 0 ELSE t

\* the task's stack becomes s; the loop is released if s is suspended or empty
Step(t, s) == /\ stack' = [stack EXCEPT ![t] = s]
              /\ cur' = Owner(s, t)

Replace(t, f) == <<f>> \o Tail(stack[t])
Push(t, caller, callee) == <<callee, caller>> \o Tail(stack[t])
Pop(t) == Tail(stack[t])

\* ------------------------------------------------------- ConnectionManager
\* a connect that creates the list with the connection and appends it again
RegisterListTwice(ac, ws, ch) ==
  IF ch \in DOMAIN ac THEN DictSet(ac, ch, Append(ac[ch], ws))
                      ELSE DictSet(ac, ch, <<ws, ws>>)

\* connect, lines 21-24: append to the channel's list
RegisterList(ac, ws, ch) ==
  IF ch \in DOMAIN ac THEN DictSet(ac, ch, Append(ac[ch], ws))
                      ELSE DictSet(ac, ch, <<ws>>)
\* a connect that stores the user info under another channel's id
RegisterUserElsewhere(cu, ws, ch, uid) ==
  DictSet(cu, ws, [user_id |-> uid, user_name |-> uid, channel_id |-> 3 - ch])

\* connect, lines 26-32: store the user info
RegisterUser(cu, ws, ch, uid) ==
  DictSet(cu, ws, [user_id |-> uid, user_name |-> uid, channel_id |-> ch])

\* a disconnect that leaves the connection in its channel's list
UnregisterListKept(ac, ws, ch) == ac

\* a disconnect that keeps the key of a channel whose list became empty
UnregisterListKeepKey(ac, ws, ch) ==
  IF ch \in DOMAIN ac /\ InList(ac[ch], ws)
  THEN DictSet(ac, ch, ListRemove(ac[ch], ws))
  ELSE ac

\* disconnect, lines 57-64: remove from the list, drop an empty channel
UnregisterList(ac, ws, ch) ==
  IF ch \in DOMAIN ac
  THEN LET l == IF InList(ac[ch], ws) THEN ListRemove(ac[ch], ws) ELSE ac[ch]
       IN  IF l = <<>> THEN DictDel(ac, ch) ELSE DictSet(ac, ch, l)
  ELSE ac
\* a disconnect that forgets to delete the user info
UnregisterUserKept(cu, ws) == cu

\* disconnect, line 69
UnregisterUser(cu, ws) == DictDel(cu, ws)

\* get_online_users: the connections it lists, and the list it returns
OnlineConnections(ch) ==
  IF ch \notin DOMAIN active_connections THEN <<>>
  ELSE SelectSeq(active_connections[ch], LAMBDA c : c \in DOMAIN connection_users)
get_online_users(ch) ==
  LET l == OnlineConnections(ch)
  IN  [i \in 1..Len(l) |-> [user_id |-> connection_users[l[i]].user_id,
                            user_name |-> connection_users[l[i]].user_name]]

get_channel_connection_count(ch) ==
  IF ch \in DOMAIN active_connections THEN Len(active_connections[ch]) ELSE 0

\* A broadcast loop iterates the channel's list object itself.  The list
\* object leaves the dictionary when the channel is dropped (it is empty
\* then and stays empty); det marks a loop whose list was dropped.
Roster(f) == IF f.det \/ f.ch \notin DOMAIN active_connections
             THEN <<>> ELSE active_connections[f.ch]

\* the connections a broadcast loop passes over without sending:
\* broadcast_to_channel line 94, broadcast_new_message_exclude_user 134-138
Skips(f, c) ==
  IF f.fn = "broadcast_to_channel" THEN c = f.exws
  ELSE c \in DOMAIN connection_users /\ connection_users[c].user_id = f.exuid

\* what a disconnect of a connection of channel ch does to a suspended loop
\* of another task: the loop has lost an element of its list, and its list
\* object if the channel was dropped
Disturb(f, ch, dropped) ==
  IF f.fn \in BroadcastFns /\ f.ch = ch /\ f.pc = "send" /\ ~f.det
  THEN [f EXCEPT !.det = dropped, !.cut = TRUE] ELSE f
DisturbAll(stk, ch, dropped) ==
  [i \in 1..Len(stk) |-> Disturb(stk[i], ch, dropped)]

\* ---------------------------------------------------- websocket_endpoint
\* lines 15-31: authenticate, then connect.  token is a required query
\* parameter (line 18, Query(...)): a handshake without it is turned down by
\* the framework's parameter validation, which closes the socket with the
\* policy-violation code 1008, and the body of the handler does not run.
EndpointStart(t) ==
  /\ At(t, "websocket_endpoint", "start")
  /\ \E inp \in HandshakeInputs(t) :
       LET ch == inp[1]
           uid == TokenUser(inp[2])
           f == [Top(t) EXCEPT !.ch = ch, !.uid = uid, !.tok = inp[2]]
       IN  IF inp[2] = "None"
           THEN /\ Step(t, <<>>)
                /\ closed_code' = [closed_code EXCEPT ![t] = 1008]
           ELSE /\ UNCHANGED closed_code
                /\ IF uid = 0
                   THEN Step(t, Replace(t, [f EXCEPT !.pc = "close"]))
                   ELSE Step(t, Push(t, [f EXCEPT !.pc = "recv"], ConnectFrame(t, ch, uid)))
  /\ UNCHANGED <<active_connections, connection_users, dead, received,
                 disc_done, ever_reg, left_calls, frames_left, closes_left,
                 stalled, pipeVars>>

\* lines 27 and 65: close(code=4001); the finally clause follows
EndpointClose(t) ==
  /\ At(t, "websocket_endpoint", "close")
  /\ closed_code' = [closed_code EXCEPT ![t] = 4001]
  /\ Step(t, Replace(t, [Top(t) EXCEPT !.pc = "finally"]))
  /\ UNCHANGED <<active_connections, connection_users, dead, received,
                 disc_done, ever_reg, left_calls, frames_left, closes_left,
                 stalled, pipeVars>>

\* lines 36, 58-59: receive_text raises WebSocketDisconnect
EndpointRecvDisconnect(t) ==
  /\ At(t, "websocket_endpoint", "recv")
  /\ t \in dead
  /\ Step(t, Replace(t, [Top(t) EXCEPT !.pc = "finally"]))
  /\ UNCHANGED <<active_connections, connection_users, dead, received,
                 disc_done, ever_reg, left_calls, envVars, pipeVars>>

\* lines 36-56: a ping or a message_read frame arrives
EndpointRecvFrame(t) ==
  /\ At(t, "websocket_endpoint", "recv")
  /\ t \notin dead /\ frames_left > 0
  /\ frames_left' = frames_left - 1
  /\ \/ Step(t, Push(t, Top(t), SendPersonalFrame(t, Pong)))
     \/ Step(t, Push(t, Top(t),
                BroadcastFrame("broadcast_to_channel", Top(t).ch,
                               MessageRead(Top(t).uid), t, 0)))
  /\ UNCHANGED <<active_connections, connection_users, dead, received,
                 disc_done, ever_reg, left_calls, closes_left, closed_code,
                 stalled, pipeVars>>

\* lines 67-69: finally: await manager.disconnect(websocket)
EndpointFinally(t) ==
  /\ At(t, "websocket_endpoint", "finally")
  /\ Step(t, Push(t, [Top(t) EXCEPT !.pc = "end"], DisconnectFrame(t)))
  /\ UNCHANGED <<active_connections, connection_users, dead, received,
                 disc_done, ever_reg, left_calls, envVars, pipeVars>>

\* the endpoint returns; the server closes the socket
EndpointEnd(t) ==
  /\ At(t, "websocket_endpoint", "end")
  /\ Step(t, Pop(t))
  /\ dead' = dead \cup {t}
  /\ UNCHANGED <<active_connections, connection_users, received,
                 disc_done, ever_reg, left_calls, envVars, pipeVars>>

\* ---------------------------------------------- simple_websocket_endpoint
\* websocket/router.py lines 72-83: the route without authentication; the
\* channel, the user id and the user name are query parameters of the caller
SimpleEndpointStart(t) ==
  /\ At(t, "websocket_endpoint", "start")
  /\ \E ch \in Channels, uid \in Users :
       Step(t, Push(t, [fn |-> "simple_websocket_endpoint", pc |-> "recv", ws |-> t,
                        ch |-> ch, uid |-> uid, tok |-> "None"],
                   ConnectFrame(t, ch, uid)))
  /\ UNCHANGED <<active_connections, connection_users, dead, received,
                 disc_done, ever_reg, left_calls, envVars, pipeVars>>

\* lines 87, 97-98: receive_text raises WebSocketDisconnect
SimpleRecvDisconnect(t) ==
  /\ At(t, "simple_websocket_endpoint", "recv")
  /\ t \in dead
  /\ Step(t, Replace(t, [Top(t) EXCEPT !.pc = "finally"]))
  /\ UNCHANGED <<active_connections, connection_users, dead, received,
                 disc_done, ever_reg, left_calls, envVars, pipeVars>>

\* lines 87-95: a ping frame arrives and is answered with a pong
SimpleRecvFrame(t) ==
  /\ At(t, "simple_websocket_endpoint", "recv")
  /\ t \notin dead /\ frames_left > 0
  /\ frames_left' = frames_left - 1
  /\ Step(t, Push(t, Top(t), SendPersonalFrame(t, Pong)))
  /\ UNCHANGED <<active_connections, connection_users, dead, received,
                 disc_done, ever_reg, left_calls, closes_left, closed_code,
                 stalled, pipeVars>>

\* lines 102-104: finally: await manager.disconnect(websocket)
SimpleFinally(t) ==
  /\ At(t, "simple_websocket_endpoint", "finally")
  /\ Step(t, Push(t, [Top(t) EXCEPT !.pc = "end"], DisconnectFrame(t)))
  /\ UNCHANGED <<active_connections, connection_users, dead, received,
                 disc_done, ever_reg, left_calls, envVars, pipeVars>>

\* the endpoint returns; the server closes the socket
SimpleEnd(t) ==
  /\ At(t, "simple_websocket_endpoint", "end")
  /\ Step(t, Pop(t))
  /\ dead' = dead \cup {t}
  /\ UNCHANGED <<active_connections, connection_users, received,
                 disc_done, ever_reg, left_calls, envVars, pipeVars>>

SimpleStep(t) ==
  \/ SimpleEndpointStart(t)
  \/ SimpleRecvDisconnect(t)
  \/ SimpleRecvFrame(t)
  \/ SimpleFinally(t)
  \/ SimpleEnd(t)

\* the peer closes its side of the connection
ClientClose(w) ==
  /\ cur = 0
  /\ stack[w] # <<>>
  /\ w \notin dead
  /\ closes_left > 0
  /\ closes_left' = closes_left - 1
  /\ dead' = dead \cup {w}
  /\ UNCHANGED <<active_connections, connection_users, stack, cur, received,
                 disc_done, ever_reg, left_calls, frames_left, closed_code,
                 stalled, pipeVars>>

\* ------------------------------------------------------------- connect
\* lines 19-40: accept, register, start the user_joined broadcast.  An
\* accept on a closed transport raises into the endpoint's outer except.
ConnectAccept(t) ==
  /\ At(t, "connect", "accept")
  /\ LET f == Top(t)
     IN  IF f.ws \in dead
         THEN /\ Step(t, <<[stack[t][2] EXCEPT !.pc =
                              IF @ = "recv" /\ stack[t][2].fn = "simple_websocket_endpoint"
                              THEN "finally" ELSE "close"]>> \o Tail(Tail(stack[t])))
              /\ UNCHANGED <<active_connections, connection_users, ever_reg>>
         ELSE /\ active_connections' = RegisterList(active_connections, f.ws, f.ch)
              /\ connection_users' = RegisterUser(connection_users, f.ws, f.ch, f.uid)
              /\ ever_reg' = DictSet(ever_reg, f.ws, [user_id |-> f.uid, channel_id |-> f.ch])
              /\ Step(t, Push(t, [f EXCEPT !.pc = "snapshot"],
                          BroadcastFrame("broadcast_to_channel", f.ch,
                                         UserJoined(f.uid), f.ws, 0)))
  /\ UNCHANGED <<dead, received, disc_done, left_calls, envVars, pipeVars>>

\* lines 42-47: send the online_users snapshot to the new connection
ConnectSnapshot(t) ==
  /\ At(t, "connect", "snapshot")
  /\ Step(t, Replace(t, SendPersonalFrame(Top(t).ws,
                          OnlineUsers(get_online_users(Top(t).ch)))))
  /\ UNCHANGED <<active_connections, connection_users, dead, received,
                 disc_done, ever_reg, left_calls, envVars, pipeVars>>

\* ------------------------------------------------- send_personal_message
SendPersonal(t) ==
  /\ At(t, "send_personal_message", "send")
  /\ Top(t).ws \notin stalled
  /\ LET f == Top(t)
     IN  IF f.ws \in dead
         THEN /\ Step(t, Replace(t, DisconnectFrame(f.ws)))
              /\ UNCHANGED received
         ELSE /\ received' = [received EXCEPT ![f.ws] = Append(@, f.msg)]
              /\ Step(t, Pop(t))
  /\ UNCHANGED <<active_connections, connection_users, dead,
                 disc_done, ever_reg, left_calls, envVars, pipeVars>>

\* ------------------------------------------------------------ disconnect
\* lines 51-77: remove the connection, then broadcast user_left
Disconnect(t) ==
  /\ At(t, "disconnect", "begin")
  /\ LET f == Top(t)
         w == f.ws
     IN  IF w \in DOMAIN connection_users
         THEN LET ch == connection_users[w].channel_id
                  uid == connection_users[w].user_id
                  ac == UnregisterList(active_connections, w, ch)
                  dropped == ch \in DOMAIN active_connections /\ ch \notin DOMAIN ac
                  s == Push(t, [f EXCEPT !.pc = "ret"],
                            BroadcastFrame("broadcast_to_channel", ch, UserLeft(uid), 0, 0))
              IN  /\ active_connections' = ac
                  /\ connection_users' = UnregisterUser(connection_users, w)
                  /\ left_calls' = [left_calls EXCEPT ![w] = @ + 1]
                  /\ stack' = [u \in DOMAIN stack |->
                                 IF u = t THEN s
                                 ELSE IF ac # active_connections
                                      THEN DisturbAll(stack[u], ch, dropped)
                                      ELSE stack[u]]
                  /\ cur' = t
                  /\ UNCHANGED disc_done
         ELSE /\ Step(t, Pop(t))
              /\ disc_done' = disc_done \cup {w}
              /\ UNCHANGED <<active_connections, connection_users, left_calls>>
  /\ UNCHANGED <<dead, received, ever_reg, envVars, pipeVars>>

DisconnectReturn(t) ==
  /\ At(t, "disconnect", "ret")
  /\ Step(t, Pop(t))
  /\ disc_done' = disc_done \cup {Top(t).ws}
  /\ UNCHANGED <<active_connections, connection_users, dead, received,
                 ever_reg, left_calls, envVars, pipeVars>>

\* ------------------------------------------------------------- broadcasts
\* broadcast_to_channel lines 89-92, broadcast_new_message_exclude_user
\* lines 120-131: return when the channel has no list, else start the loop
BroadcastEnter(t) ==
  /\ CanRun(t) /\ Top(t).fn \in BroadcastFns /\ Top(t).pc = "enter"
  /\ IF Top(t).ch \notin DOMAIN active_connections
     THEN Step(t, Pop(t))
     ELSE Step(t, Replace(t, [Top(t) EXCEPT !.pc = "iter",
                                            !.snap = active_connections[Top(t).ch]]))
  /\ UNCHANGED <<active_connections, connection_users, dead, received,
                 disc_done, ever_reg, left_calls, envVars, pipeVars>>

\* one advance of the list iterator (lines 93-98, 132-141): take the next
\* element of the list, skip it, fail to serialize for it, or start a send
BroadcastNext(t) ==
  /\ CanRun(t) /\ Top(t).fn \in BroadcastFns /\ Top(t).pc = "iter"
  /\ LET f == Top(t)
         l == Roster(f)
     IN  IF f.idx >= Len(l)
         THEN Step(t, Replace(t, [f EXCEPT !.pc = "prune"]))
         ELSE LET c == l[f.idx + 1]
                  g == [f EXCEPT !.idx = @ + 1]
              IN  IF Skips(f, c) THEN Step(t, Replace(t, g))
                  ELSE IF ~JsonDumpsOk(f.msg)
                       THEN Step(t, Replace(t, [g EXCEPT !.rem = Append(@, c),
                                                        !.failed = @ \cup {c}]))
                       ELSE Step(t, Replace(t, [g EXCEPT !.pc = "send", !.target = c,
                                                        !.tried = @ \cup {c}]))
  /\ UNCHANGED <<active_connections, connection_users, dead, received,
                 disc_done, ever_reg, left_calls, envVars, pipeVars>>

\* the send completes (lines 98-101, 141-147): delivered, or marked for removal
BroadcastSent(t) ==
  /\ CanRun(t) /\ Top(t).fn \in BroadcastFns /\ Top(t).pc = "send"
  /\ Top(t).target \notin stalled
  /\ LET f == Top(t)
     IN  IF f.target \in dead
         THEN /\ Step(t, Replace(t, [f EXCEPT !.pc = "iter",
                                              !.rem = Append(@, f.target),
                                              !.failed = @ \cup {f.target}]))
              /\ UNCHANGED received
         ELSE /\ received' = [received EXCEPT ![f.target] = Append(@, f.msg)]
              /\ Step(t, Replace(t, [f EXCEPT !.pc = "iter"]))
  /\ UNCHANGED <<active_connections, connection_users, dead,
                 disc_done, ever_reg, left_calls, envVars, pipeVars>>

\* lines 103-105, 151-153: disconnect every connection whose send failed
BroadcastPrune(t) ==
  /\ CanRun(t) /\ Top(t).fn \in BroadcastFns /\ Top(t).pc = "prune"
  /\ LET f == Top(t)
     IN  IF f.rem = <<>>
         THEN Step(t, Pop(t))
         ELSE Step(t, Push(t, [f EXCEPT !.rem = Tail(@)], DisconnectFrame(Head(f.rem))))
  /\ UNCHANGED <<active_connections, connection_users, dead, received,
                 disc_done, ever_reg, left_calls, envVars, pipeVars>>

BroadcastStep(t) ==
  \/ Disconnect(t)
  \/ DisconnectReturn(t)
  \/ BroadcastEnter(t)
  \/ BroadcastNext(t)
  \/ BroadcastSent(t)
  \/ BroadcastPrune(t)

ConnectStep(t) ==
  \/ ConnectAccept(t)
  \/ ConnectSnapshot(t)
  \/ SendPersonal(t)

HandlerStep(t) ==
  \/ EndpointStart(t)
  \/ EndpointClose(t)
  \/ EndpointRecvDisconnect(t)
  \/ EndpointFinally(t)
  \/ EndpointEnd(t)

\* ------------------------------------------------------ message pipeline
\* a ChannelMessage row (channels/models.py lines 37-61); response and
\* provider are "None" when NULL
Row(id, ch, uid, message, resp, provider, mtype, file) ==
  [id |-> id, channel_id |-> ch, user_id |-> uid, message |-> message,
   response |-> resp, provider |-> provider, message_type |-> mtype,
   file_url |-> file]

\* the dict process_channel_message / process_file_upload build from a row
\* (chat_service.py lines 186-207, 378-406): created_at is the row's datetime
ServiceDict(row) ==
  [id |-> row.id, channel_id |-> row.channel_id, user_id |-> row.user_id,
   message |-> row.message, response |-> "None",
   provider |-> IF row.message_type = "ai" THEN row.provider ELSE "None",
   message_type |-> row.message_type, created_at |-> "datetime"]

\* the dict the routers build for their own broadcast (channels/router.py
\* lines 346-359, 441-455): created_at goes through isoformat()
RouterDict(m) == [m EXCEPT !.created_at = "iso"]

\* a message list that puts the AI's reply before the user's message
MessageListReplyFirst(user_row, ai_row) == <<ServiceDict(ai_row), ServiceDict(user_row)>>

\* chat_service.py lines 186-207 and 377-406: the list the pipeline returns
\* and broadcasts, the user's message first
MessageList(user_row, ai_row) == <<ServiceDict(user_row), ServiceDict(ai_row)>>

\* a fallback text that leaves the error out
ChatReplySilent(outcome) == IF outcome = "ok" THEN "reply" ELSE "apology"

\* _process_message lines 50-67: the reply, or the fallback text on an error
ChatReply(outcome) == IF outcome = "ok" THEN "reply" ELSE "apology_with_error"
\* process_file_upload lines 349-361
UploadReply(outcome) == IF outcome = "ok" THEN "analysis" ELSE "upload_apology_with_error"
\* ai_providers.py: GroqProvider.analyze_file never raises (lines 64-67),
\* GeminiProvider.analyze_file raises when no model is configured (133-134)
AnalyzeOutcomes(provider) == IF provider = "groq" THEN {"ok"} ELSE AiOutcomes

is_user_member(ch, uid) == <<ch, uid>> \in Members

\* str.strip() of the message text is empty
IsBlank(text) == text = "blank"

Pending(uid, ch, kind) ==
  [status |-> 0, messages |-> <<>>, reply |-> "None", provider |-> "None",
   raised |-> FALSE, uid |-> uid, ch |-> ch, kind |-> kind,
   roster0 |-> IF ch \in DOMAIN active_connections
               THEN active_connections[ch] ELSE <<>>,
   users0 |-> connection_users, bcasts |-> <<>>, commit_failed |-> FALSE]

ChatFrame(ch, uid, text) ==
  [fn |-> "send_message_to_channel", pc |-> "bcast", ch |-> ch, uid |-> uid,
   text |-> text, msgs |-> <<>>, i |-> 0]
PcmFrame(ch, uid, text) ==
  [fn |-> "process_channel_message", pc |-> "invoke", ch |-> ch, uid |-> uid,
   text |-> text, reply |-> "None", provider |-> "None", msgs |-> <<>>, i |-> 0]
UploadFrame(ch, uid, text) ==
  [fn |-> "upload_file_to_channel", pc |-> "bcast", ch |-> ch, uid |-> uid,
   text |-> text, msgs |-> <<>>, i |-> 0]
PfuFrame(ch, uid, text) ==
  [fn |-> "process_file_upload", pc |-> "save_user", ch |-> ch, uid |-> uid,
   text |-> text, reply |-> "None", provider |-> "None", msgs |-> <<>>, i |-> 0]

\* a request arrives at an idle request task
Arrives(t) == /\ At(t, "idle", "start")
              /\ \A u \in ReqTasks : u < t => stack[u] # <<IdleFrame>>
              /\ posts_left > 0
              /\ posts_left' = posts_left - 1

\* channels/router.py send_message_to_channel lines 324-341: membership and
\* empty-message checks, then process_channel_message
StartChat(t) ==
  /\ Arrives(t)
  /\ \E inp \in PostInputs :
       LET uid == inp[1]
           ch == inp[2]
           text == inp[3]
           r == Pending(uid, ch, "chat")
       IN  IF ~is_user_member(ch, uid)
           THEN /\ response' = [response EXCEPT ![t] = [r EXCEPT !.status = 403]]
                /\ Step(t, <<>>)
           ELSE IF IsBlank(text)
           THEN /\ response' = [response EXCEPT ![t] = [r EXCEPT !.status = 400]]
                /\ Step(t, <<>>)
           ELSE /\ response' = [response EXCEPT ![t] = r]
                /\ Step(t, <<PcmFrame(ch, uid, text), ChatFrame(ch, uid, text)>>)
  /\ UNCHANGED <<active_connections, connection_users, dead, received,
                 disc_done, ever_reg, left_calls, envVars, settings, issued, store,
                 ai_calls>>

\* chat_service.py process_channel_message lines 144-152: the AI provider
\* is called through the workflow; an error becomes the fallback text
PcmInvoke(t) ==
  /\ At(t, "process_channel_message", "invoke")
  /\ \E outcome \in AiOutcomes :
       /\ Step(t, Replace(t, [Top(t) EXCEPT !.pc = "save_user",
                                            !.reply = ChatReply(outcome),
                                            !.provider = settings.AI_PROVIDER]))
       /\ response' = [response EXCEPT ![t].raised = (outcome = "raise")]
  /\ ai_calls' = ai_calls + 1
  /\ UNCHANGED <<active_connections, connection_users, dead, received,
                 disc_done, ever_reg, left_calls, envVars, settings, issued, store,
                 posts_left>>

\* lines 159-169: the user's row is committed
PcmSaveUser(t) ==
  /\ At(t, "process_channel_message", "save_user")
  /\ LET f == Top(t)
         row == Row(Len(store) + 1, f.ch, f.uid, f.text, "None", "None", "user", "None")
     IN  /\ store' = Append(store, row)
         /\ Step(t, Replace(t, [f EXCEPT !.pc = "save_ai", !.msgs = <<row>>]))
  /\ UNCHANGED <<active_connections, connection_users, dead, received,
                 disc_done, ever_reg, left_calls, envVars, settings, issued, ai_calls,
                 response, posts_left>>

\* lines 171-207: the AI's row is committed and the message list is built.
\* A commit that raises leaves process_channel_message through its finally
\* (lines 220-221); channels/router.py lines 366-367 turn it into a 500.
PcmSaveAi(t) ==
  /\ At(t, "process_channel_message", "save_ai")
  /\ \E committed \in BOOLEAN :
       LET f == Top(t)
           row == Row(Len(store) + 1, f.ch, -1, f.reply, "None", f.provider, "ai", "None")
       IN  IF committed
           THEN /\ store' = Append(store, row)
                /\ Step(t, Replace(t, [f EXCEPT !.pc = "bcast",
                                                !.msgs = MessageList(@[1], row)]))
                /\ UNCHANGED response
           ELSE /\ UNCHANGED store
                /\ Step(t, <<>>)
                /\ response' = [response EXCEPT ![t].status = 500,
                                                ![t].commit_failed = TRUE]
  /\ UNCHANGED <<active_connections, connection_users, dead, received,
                 disc_done, ever_reg, left_calls, envVars, settings, issued, ai_calls,
                 posts_left>>

\* process_channel_message lines 209-219 and process_file_upload lines
\* 408-419: broadcast every message dict as built, then return the list
ServiceBroadcast(t) ==
  /\ CanRun(t)
  /\ Top(t).fn \in {"process_channel_message", "process_file_upload"}
  /\ Top(t).pc = "bcast"
  /\ LET f == Top(t)
     IN  IF f.i < Len(f.msgs)
         THEN /\ Step(t, Push(t, [f EXCEPT !.i = @ + 1],
                         BroadcastFrame("broadcast_new_message_exclude_user", f.ch,
                                        NewMessage(f.msgs[f.i + 1]), 0, f.uid)))
              /\ response' = [response EXCEPT ![t].bcasts = Append(@, f.msgs[f.i + 1])]
              /\ issued' = Append(issued, f.msgs[f.i + 1])
         ELSE /\ Step(t, <<[stack[t][2] EXCEPT !.msgs = f.msgs]>> \o Tail(Tail(stack[t])))
              /\ UNCHANGED <<response, issued>>
  /\ UNCHANGED <<active_connections, connection_users, dead, received,
                 disc_done, ever_reg, left_calls, envVars, settings, store,
                 ai_calls, posts_left>>

\* channels/router.py lines 343-364 and 433-459: the router broadcasts every
\* returned message again, with an ISO timestamp, and answers 200
RouterBroadcast(t) ==
  /\ CanRun(t)
  /\ Top(t).fn \in {"send_message_to_channel", "upload_file_to_channel"}
  /\ Top(t).pc = "bcast"
  /\ LET f == Top(t)
     IN  IF f.i < Len(f.msgs)
         THEN /\ Step(t, Push(t, [f EXCEPT !.i = @ + 1],
                         BroadcastFrame("broadcast_new_message_exclude_user", f.ch,
                                        NewMessage(RouterDict(f.msgs[f.i + 1])), 0, f.uid)))
              /\ response' = [response EXCEPT ![t].bcasts = Append(@, RouterDict(f.msgs[f.i + 1]))]
              /\ issued' = Append(issued, RouterDict(f.msgs[f.i + 1]))
         ELSE /\ Step(t, Pop(t))
              /\ response' = [response EXCEPT ![t].status = 200, ![t].messages = f.msgs]
              /\ UNCHANGED issued
  /\ UNCHANGED <<active_connections, connection_users, dead, received,
                 disc_done, ever_reg, left_calls, envVars, settings, store,
                 ai_calls, posts_left>>

\* channels/router.py upload_file_to_channel lines 386-432: membership
\* check, the file is written to disk, then process_file_upload
StartUpload(t) ==
  /\ Arrives(t)
  /\ \E inp \in PostInputs, saved \in BOOLEAN :
       LET uid == inp[1]
           ch == inp[2]
           r == Pending(uid, ch, "upload")
       IN  IF ~is_user_member(ch, uid)
           THEN /\ response' = [response EXCEPT ![t] = [r EXCEPT !.status = 403]]
                /\ Step(t, <<>>)
           ELSE IF ~saved
           THEN /\ response' = [response EXCEPT ![t] = [r EXCEPT !.status = 500]]
                /\ Step(t, <<>>)
           ELSE /\ response' = [response EXCEPT ![t] = r]
                /\ Step(t, <<PfuFrame(ch, uid, "file"), UploadFrame(ch, uid, "file")>>)
  /\ UNCHANGED <<active_connections, connection_users, dead, received,
                 disc_done, ever_reg, left_calls, envVars, settings, issued, store,
                 ai_calls>>

\* chat_service.py process_file_upload lines 331-346: the user's row
PfuSaveUser(t) ==
  /\ At(t, "process_file_upload", "save_user")
  /\ LET f == Top(t)
         row == Row(Len(store) + 1, f.ch, f.uid, f.text, "None", "None", "user", "url")
     IN  /\ store' = Append(store, row)
         /\ Step(t, Replace(t, [f EXCEPT !.pc = "analyze", !.msgs = <<row>>]))
  /\ UNCHANGED <<active_connections, connection_users, dead, received,
                 disc_done, ever_reg, left_calls, envVars, settings, issued, ai_calls,
                 response, posts_left>>

\* lines 348-361: analyze_file, or the fallback text when it raises
PfuAnalyze(t) ==
  /\ At(t, "process_file_upload", "analyze")
  /\ \E outcome \in AnalyzeOutcomes(settings.AI_PROVIDER) :
       /\ Step(t, Replace(t, [Top(t) EXCEPT !.pc = "save_ai",
                                            !.reply = UploadReply(outcome),
                                            !.provider = settings.AI_PROVIDER]))
       /\ response' = [response EXCEPT ![t].raised = (outcome = "raise")]
  /\ ai_calls' = ai_calls + 1
  /\ UNCHANGED <<active_connections, connection_users, dead, received,
                 disc_done, ever_reg, left_calls, envVars, settings, issued, store,
                 posts_left>>

\* lines 363-406: the AI's row is committed and the message list is built.
\* A commit that raises reaches the except of upload_file_to_channel
\* (channels/router.py lines 461-487): create_file_message (channels/
\* service.py lines 290-319) commits a user row for the file and the answer
\* holds that row alone.
PfuSaveAi(t) ==
  /\ At(t, "process_file_upload", "save_ai")
  /\ \E committed \in BOOLEAN :
       LET f == Top(t)
           row == Row(Len(store) + 1, f.ch, -1, f.reply, "None", f.provider, "ai", "None")
           again == Row(Len(store) + 1, f.ch, f.uid, f.text, "None", "None", "user", "url")
       IN  IF committed
           THEN /\ store' = Append(store, row)
                /\ Step(t, Replace(t, [f EXCEPT !.pc = "bcast",
                                                !.msgs = MessageList(@[1], row)]))
                /\ UNCHANGED response
           ELSE /\ store' = Append(store, again)
                /\ Step(t, <<>>)
                /\ response' = [response EXCEPT ![t].status = 200,
                                                ![t].messages = <<ServiceDict(again)>>,
                                                ![t].commit_failed = TRUE]
  /\ UNCHANGED <<active_connections, connection_users, dead, received,
                 disc_done, ever_reg, left_calls, envVars, settings, issued, ai_calls,
                 posts_left>>

\* ai_service/router.py chat_in_channel lines 31-44 with process_chat_message
\* (chat_service.py 112-133) and save_chat_message (69-110): one row that
\* carries the user's text and the reply
ChatInChannel(t) ==
  /\ Arrives(t)
  /\ \E inp \in PostInputs, outcome \in AiOutcomes :
       LET uid == inp[1]
           ch == inp[2]
           text == inp[3]
           reply == ChatReply(outcome)
           row == Row(Len(store) + 1, ch, uid, text, reply, settings.AI_PROVIDER,
                      IF reply # "" THEN "ai" ELSE "user", "None")
       IN  /\ store' = Append(store, row)
           /\ response' = [response EXCEPT ![t] =
                 [Pending(uid, ch, "chat_in_channel") EXCEPT
                    !.status = 200, !.reply = reply,
                    !.provider = settings.AI_PROVIDER,
                    !.raised = (outcome = "raise")]]
  /\ ai_calls' = ai_calls + 1
  /\ Step(t, <<>>)
  /\ UNCHANGED <<active_connections, connection_users, dead, received,
                 disc_done, ever_reg, left_calls, envVars, settings, issued>>

ChatStep(t) ==
  \/ StartChat(t)
  \/ PcmInvoke(t)
  \/ PcmSaveUser(t)
  \/ PcmSaveAi(t)
  \/ ServiceBroadcast(t)
  \/ RouterBroadcast(t)

UploadStep(t) ==
  \/ StartUpload(t)
  \/ PfuSaveUser(t)
  \/ PfuAnalyze(t)
  \/ PfuSaveAi(t)

\* ---------------------------------------------------------- specifications
DefaultSettings == [AI_CHAT_ENABLED |-> TRUE, AI_PROVIDER |-> "groq"]

\* the state after construction: an empty registry, every handshake ahead
Init ==
  /\ active_connections = <<>>
  /\ connection_users = <<>>
  /\ stack = [t \in Tasks |-> IF t \in WS THEN <<EndpointFrame(t)>> ELSE <<>>]
  /\ cur = 0
  /\ dead = {}
  /\ received = [w \in WS |-> <<>>]
  /\ frames_left = 0
  /\ closes_left = MaxCloses
  /\ posts_left = 0
  /\ closed_code = [w \in WS |-> 0]
  /\ disc_done = {}
  /\ ever_reg = <<>>
  /\ left_calls = [w \in WS |-> 0]
  /\ settings = DefaultSettings
  /\ store = <<>>
  /\ ai_calls = 0
  /\ response = [t \in ReqTasks |-> [status |-> 0]]
  /\ stalled = {}
  /\ issued = <<>>

Next ==
  \/ \E t \in WS : HandlerStep(t)
  \/ \E t \in WS : ConnectStep(t)
  \/ \E t \in WS : BroadcastStep(t)
  \/ \E w \in WS : ClientClose(w)

Spec == Init /\ [][Next]_vars

\* a running server: connection 1 (user 1) and connection 2 (user 2) are
\* registered in channel 1 and their handlers wait in the receive loop
Established(w, ch, uid) ==
  [fn |-> "websocket_endpoint", pc |-> "recv", ws |-> w, ch |-> ch, uid |-> uid,
   tok |-> IF uid = 1 THEN "tok1" ELSE "tok2"]

InitRegistry ==
  /\ active_connections = (1 :> <<1, 2>>)
  /\ connection_users = (1 :> [user_id |-> 1, user_name |-> 1, channel_id |-> 1])
                        @@ (2 :> [user_id |-> 2, user_name |-> 2, channel_id |-> 1])
  /\ dead = {}
  /\ received = [w \in WS |->
                   IF w = 1 THEN <<OnlineUsers(<<[user_id |-> 1, user_name |-> 1]>>),
                                   UserJoined(2)>>
                   ELSE IF w = 2
                   THEN <<OnlineUsers(<<[user_id |-> 1, user_name |-> 1],
                                        [user_id |-> 2, user_name |-> 2]>>)>>
                   ELSE <<>>]
  /\ closed_code = [w \in WS |-> 0]
  /\ disc_done = {}
  /\ ever_reg = (1 :> [user_id |-> 1, channel_id |-> 1])
                @@ (2 :> [user_id |-> 2, channel_id |-> 1])
  /\ left_calls = [w \in WS |-> 0]

\* no request has been served yet and every client reads what it is sent
InitRunning ==
  /\ InitRegistry
  /\ cur = 0
  /\ store = <<>>
  /\ ai_calls = 0
  /\ response = [t \in ReqTasks |-> [status |-> 0]]
  /\ stalled = {}
  /\ issued = <<>>

\* a running server whose clients send frames and close
InitSession ==
  /\ InitRunning
  /\ stack = [t \in Tasks |->
                IF t = 1 THEN <<Established(1, 1, 1)>>
                ELSE IF t = 2 THEN <<Established(2, 1, 2)>>
                ELSE IF t = 3 THEN <<EndpointFrame(3)>>
                ELSE <<>>]
  /\ frames_left = MaxFrames
  /\ closes_left = MaxCloses
  /\ posts_left = 0
  /\ settings = DefaultSettings

NextSession ==
  \/ Next
  \/ \E t \in WS : EndpointRecvFrame(t)

SpecSession == InitSession /\ [][NextSession]_vars

\* chat requests against a running server, while a third client connects
\* and peers close
InitChat ==
  /\ InitRunning
  /\ stack = [t \in Tasks |->
                IF t = 1 THEN <<Established(1, 1, 1)>>
                ELSE IF t = 2 THEN <<Established(2, 1, 2)>>
                ELSE IF t = 3 THEN <<EndpointFrame(3)>>
                ELSE <<IdleFrame>>]
  /\ frames_left = 0
  /\ closes_left = MaxCloses
  /\ posts_left = MaxPosts
  /\ settings = DefaultSettings

NextChat ==
  \/ \E t \in WS : HandlerStep(t)
  \/ \E t \in WS : ConnectStep(t)
  \/ \E t \in Tasks : BroadcastStep(t)
  \/ \E w \in WS : ClientClose(w)
  \/ \E t \in ReqTasks : ChatStep(t)

SpecChat == InitChat /\ [][NextChat]_vars

\* the three request handlers against a quiet roster, under every setting
InitPipe ==
  /\ InitRunning
  /\ stack = [t \in Tasks |->
                IF t = 1 THEN <<Established(1, 1, 1)>>
                ELSE IF t = 2 THEN <<Established(2, 1, 2)>>
                ELSE IF t = 3 THEN <<>>
                ELSE <<IdleFrame>>]
  /\ frames_left = 0
  /\ closes_left = 0
  /\ posts_left = MaxPosts
  /\ settings \in [AI_CHAT_ENABLED : BOOLEAN, AI_PROVIDER : {"groq", "gemini"}]

NextPipe ==
  \/ \E t \in ReqTasks : ChatStep(t)
  \/ \E t \in ReqTasks : UploadStep(t)
  \/ \E t \in ReqTasks : ChatInChannel(t)
  \/ \E t \in ReqTasks : BroadcastStep(t)

SpecPipe == InitPipe /\ [][NextPipe]_vars

\* two chat requests of user 1 that have both committed their rows and made
\* their service-level broadcasts: the first request's router-level broadcast
\* of its user message is suspended on the send to connection 2, the second
\* request is about to start its router-level broadcasts
OrderRow(id) ==
  IF id % 2 = 1 THEN Row(id, 1, 1, "hello", "None", "None", "user", "None")
  ELSE Row(id, 1, -1, "reply", "None", "groq", "ai", "None")

InitOrder ==
  /\ InitRegistry
  /\ stack = [t \in Tasks |->
                IF t = 1 THEN <<Established(1, 1, 1)>>
                ELSE IF t = 2 THEN <<Established(2, 1, 2)>>
                ELSE IF t = 3 THEN <<>>
                ELSE IF t = 4
                THEN <<[BroadcastFrame("broadcast_new_message_exclude_user", 1,
                                       NewMessage(RouterDict(ServiceDict(OrderRow(1)))), 0, 1)
                          EXCEPT !.pc = "send", !.idx = 2, !.target = 2,
                                 !.snap = <<1, 2>>, !.tried = {2}],
                        [ChatFrame(1, 1, "hello") EXCEPT
                           !.msgs = MessageList(OrderRow(1), OrderRow(2)), !.i = 1]>>
                ELSE <<[ChatFrame(1, 1, "hello") EXCEPT
                           !.msgs = MessageList(OrderRow(3), OrderRow(4))]>>]
  /\ cur = 5
  /\ frames_left = 0
  /\ closes_left = MaxCloses
  /\ posts_left = 0
  /\ settings = DefaultSettings
  /\ store = <<OrderRow(1), OrderRow(2), OrderRow(3), OrderRow(4)>>
  /\ ai_calls = 2
  /\ response = [t \in ReqTasks |->
                   [Pending(1, 1, "chat") EXCEPT
                      !.bcasts = IF t = 4
                                 THEN <<ServiceDict(OrderRow(1)), ServiceDict(OrderRow(2)),
                                        RouterDict(ServiceDict(OrderRow(1)))>>
                                 ELSE <<ServiceDict(OrderRow(3)), ServiceDict(OrderRow(4))>>]]
  /\ stalled = {}
  /\ issued = <<ServiceDict(OrderRow(1)), ServiceDict(OrderRow(2)),
                RouterDict(ServiceDict(OrderRow(1))),
                ServiceDict(OrderRow(3)), ServiceDict(OrderRow(4))>>

NextOrder ==
  \/ \E t \in WS : EndpointRecvDisconnect(t)
  \/ \E t \in WS : EndpointFinally(t)
  \/ \E t \in WS : EndpointEnd(t)
  \/ \E t \in Tasks : BroadcastStep(t)
  \/ \E w \in WS : ClientClose(w)
  \/ \E t \in ReqTasks : RouterBroadcast(t)

SpecOrder == InitOrder /\ [][NextOrder]_vars

\* a peer stops reading: from now on no send to it completes, and no send
\* fails either (send_text at connection_manager.py lines 98 and 141 is
\* awaited without a timeout)
ClientStall(w) ==
  /\ cur = 0
  /\ stack[w] # <<>>
  /\ w \notin dead
  /\ Cardinality(stalled) < MaxStalled
  /\ stalled' = stalled \cup {w}
  /\ UNCHANGED <<active_connections, connection_users, stack, cur, dead,
                 received, disc_done, ever_reg, left_calls, frames_left,
                 closes_left, closed_code, pipeVars>>

\* a running server in which a third client connects while a peer may stop
\* reading; the event loop runs every task that can take a step
NextStall ==
  \/ Next
  \/ \E w \in WS : ClientStall(w)

SpecStall == InitSession /\ [][NextStall]_vars /\ WF_vars(NextStall)

\* ------------------------------------------------- provider retry policy
\* ai_providers.py lines 37-41, 93-97: the tenacity decorator of both
\* generate_response methods.  outs[i] is what the provider's API does on
\* the i-th call: "ok" or "transient" (a network or API error).
RetryFrame(provider, configured, outs) ==
  [fn |-> "generate_response", pc |-> "start", provider |-> provider,
   configured |-> configured, outs |-> outs, attempts |-> 0, result |-> "None"]

\* what one call of the undecorated method raises ("None": it returns):
\* GroqProvider lines 43-62 raise ValueError only without a client;
\* GeminiProvider lines 99-129 turn every exception into a ValueError
RaisedByAttempt(provider, configured, out) ==
  IF ~configured THEN "ValueError"
  ELSE IF out = "ok" THEN "None"
  ELSE IF provider = "gemini" THEN "ValueError"
  ELSE "APIError"

\* retry=retry_if_not_exception_type(ValueError)
RetryWanted(exc) == exc # "None" /\ exc # "ValueError"

\* one attempt and the decorator's decision: return, re-raise the
\* ValueError, give up with RetryError after stop_after_attempt(3), or
\* sleep and try again.  The method is synchronous: from its first attempt
\* to its return the task keeps the event loop.
RetryAttempt(t) ==
  /\ At(t, "generate_response", "start") \/ At(t, "generate_response", "attempt")
  /\ LET f == Top(t)
         n == f.attempts + 1
         exc == RaisedByAttempt(f.provider, f.configured, f.outs[n])
         g == [f EXCEPT !.attempts = n]
     IN  IF ~RetryWanted(exc)
         THEN Step(t, Replace(t, [g EXCEPT !.pc = "done",
                                          !.result = IF exc = "None" THEN "ok" ELSE exc]))
         ELSE IF n >= stop_after_attempt
         THEN Step(t, Replace(t, [g EXCEPT !.pc = "done", !.result = "RetryError"]))
         ELSE Step(t, Replace(t, [g EXCEPT !.pc = "wait"]))
  /\ ai_calls' = ai_calls + 1
  /\ UNCHANGED <<active_connections, connection_users, dead, received,
                 disc_done, ever_reg, left_calls, envVars, settings, issued,
                 store, response, posts_left>>

\* wait=wait_exponential(multiplier=1, min=4, max=10): the sleep between
\* two attempts
RetryWait(t) ==
  /\ At(t, "generate_response", "wait")
  /\ Step(t, Replace(t, [Top(t) EXCEPT !.pc = "attempt"]))
  /\ UNCHANGED <<active_connections, connection_users, dead, received,
                 disc_done, ever_reg, left_calls, envVars, pipeVars>>

\* the decorated call returns or raises to its caller
RetryReturn(t) ==
  /\ At(t, "generate_response", "done")
  /\ response' = [response EXCEPT ![t] =
                    [status |-> 0, kind |-> "generate_response",
                     provider |-> Top(t).provider, configured |-> Top(t).configured,
                     outs |-> Top(t).outs, attempts |-> Top(t).attempts,
                     result |-> Top(t).result]]
  /\ Step(t, Pop(t))
  /\ UNCHANGED <<active_connections, connection_users, dead, received,
                 disc_done, ever_reg, left_calls, envVars, settings, issued,
                 store, ai_calls, posts_left>>

\* one decorated call per request task, for every provider, with and
\* without an API key, against every run of API outcomes
InitRetry ==
  /\ InitRunning
  /\ \E p4, p5 \in {"groq", "gemini"} :
     \E c4, c5 \in BOOLEAN :
     \E o4, o5 \in [1..MaxCalls -> {"ok", "transient"}] :
        stack = [t \in Tasks |->
                   IF t = 1 THEN <<Established(1, 1, 1)>>
                   ELSE IF t = 2 THEN <<Established(2, 1, 2)>>
                   ELSE IF t = 3 THEN <<>>
                   ELSE IF t = 4 THEN <<RetryFrame(p4, c4, o4)>>
                   ELSE <<RetryFrame(p5, c5, o5)>>]
  /\ frames_left = 0
  /\ closes_left = 0
  /\ posts_left = 0
  /\ settings = DefaultSettings

NextRetry ==
  \/ \E t \in ReqTasks : RetryAttempt(t)
  \/ \E t \in ReqTasks : RetryWait(t)
  \/ \E t \in ReqTasks : RetryReturn(t)

SpecRetry == InitRetry /\ [][NextRetry]_vars

\* a running server whose third client may take either WebSocket route
NextSimple ==
  \/ NextSession
  \/ \E t \in WS : SimpleStep(t)

SpecSimple == InitSession /\ [][NextSimple]_vars

\* three connections are registered in channel 1 and their handlers wait in
\* the receive loop; some peers have died without the server having noticed.
\* The event loop runs every task that can take a step.
InitCascade ==
  /\ active_connections = (1 :> <<1, 2, 3>>)
  /\ connection_users = [w \in WS |->
                           [user_id |-> IF w = 1 THEN 1 ELSE 2,
                            user_name |-> IF w = 1 THEN 1 ELSE 2,
                            channel_id |-> 1]]
  /\ stack = [t \in Tasks |->
                IF t \in WS THEN <<Established(t, 1, IF t = 1 THEN 1 ELSE 2)>>
                ELSE <<>>]
  /\ cur = 0
  /\ dead \in {d \in SUBSET WS : Cardinality(d) <= MaxDead}
  /\ received = [w \in WS |->
                   <<OnlineUsers([i \in 1..w |->
                                    [user_id |-> IF i = 1 THEN 1 ELSE 2,
                                     user_name |-> IF i = 1 THEN 1 ELSE 2]])>>
                   \o [i \in 1..(Cardinality(WS) - w) |-> UserJoined(2)]]
  /\ closed_code = [w \in WS |-> 0]
  /\ disc_done = {}
  /\ ever_reg = [w \in WS |-> [user_id |-> IF w = 1 THEN 1 ELSE 2, channel_id |-> 1]]
  /\ left_calls = [w \in WS |-> 0]
  /\ frames_left = 0
  /\ closes_left = MaxCloses
  /\ posts_left = 0
  /\ settings = DefaultSettings
  /\ store = <<>>
  /\ ai_calls = 0
  /\ response = [t \in ReqTasks |-> [status |-> 0]]
  /\ stalled = {}
  /\ issued = <<>>

NextCascade ==
  \/ \E t \in WS : EndpointRecvDisconnect(t)
  \/ \E t \in WS : EndpointFinally(t)
  \/ \E t \in WS : EndpointEnd(t)
  \/ \E t \in WS : BroadcastStep(t)
  \/ \E w \in WS : ClientClose(w)

SpecCascade == InitCascade /\ [][NextCascade]_vars /\ WF_vars(NextCascade)

\* ------------------------------------------------------------------ claims
Registered(w) == w \in DOMAIN connection_users

\* C1: get_online_users never lists a connection whose disconnect has
\* completed, and no channel's roster holds the same connection twice.
RosterIntegrity ==
  /\ \A ch \in DOMAIN active_connections : NoDup(active_connections[ch])
  /\ \A w \in disc_done : \A ch \in Channels : ~InList(OnlineConnections(ch), w)

\* a registered connection has been disconnected while its channel still has
\* another connection online
RosterIntegrityWitness ==
  \E w \in disc_done :
     /\ w \in DOMAIN ever_reg
     /\ OnlineConnections(ever_reg[w].channel_id) # <<>>

\* C6: a disconnect of a connection that is no longer registered changes
\* nothing, and however the disconnect calls for one connection interleave,
\* exactly one user_left broadcast is issued for a connection that was
\* registered.
DisconnectIdempotent ==
  /\ [](\A w \in WS :
          /\ left_calls[w] <= 1
          /\ (w \in disc_done /\ w \in DOMAIN ever_reg) => left_calls[w] = 1)
  /\ [][\A t \in Tasks :
          (/\ cur = t
           /\ stack[t] # <<>>
           /\ Top(t).fn = "disconnect" /\ Top(t).pc = "begin"
           /\ ~Registered(Top(t).ws))
          => /\ stack'[t] = Tail(stack[t])
             /\ UNCHANGED <<active_connections, connection_users, received,
                            left_calls>>]_vars

\* a second disconnect call is about to run for a connection whose first
\* disconnect has completed with its user_left broadcast
DisconnectIdempotentWitness ==
  \E t \in Tasks :
     /\ stack[t] # <<>>
     /\ Top(t).fn = "disconnect" /\ Top(t).pc = "begin"
     /\ Top(t).ws \in disc_done
     /\ left_calls[Top(t).ws] = 1


\* a broadcast loop of the given function has visited its whole list and is
\* about to prune (or is pruning) the connections it marked
LoopDone(f) == f.fn \in BroadcastFns /\ f.pc = "prune"

\* the new_message events a client has been sent, as message ids
NewMessageIds(c) ==
  LET evs == SelectSeq(received[c], LAMBDA e : e.type = "new_message")
  IN  [i \in 1..Len(evs) |-> evs[i].message.id]

\* C2: broadcast_new_message_exclude_user sends the new_message event to
\* every registered connection of the roster whose user differs from the
\* excluded user, and to no connection of the excluded user (no connection
\* having left the roster during the call).
ExcludeUserDelivers ==
  \A t \in Tasks : \A i \in 1..Len(stack[t]) :
     LET f == stack[t][i]
     IN  (/\ f.fn = "broadcast_new_message_exclude_user"
          /\ f.pc = "prune"
          /\ ~f.cut)
         => /\ \A c \in Elems(f.snap) :
                  ever_reg[c].user_id # f.exuid => c \in f.tried
            /\ \A c \in f.tried : ever_reg[c].user_id # f.exuid

\* C3: when a connection has left the channel while a broadcast was suspended
\* on a send, every other connection of the roster that is still registered,
\* is not excluded and has not failed has been sent the event, and the
\* connection that left is not listed by get_online_users.
BroadcastSurvivesDisconnect ==
  /\ \A t \in Tasks : \A i \in 1..Len(stack[t]) :
        LET f == stack[t][i]
        IN  (LoopDone(f) /\ f.cut)
            => \A c \in Elems(f.snap) :
                  (Registered(c) /\ ~Skips(f, c) /\ c \notin f.failed)
                  => c \in f.tried
  /\ \A w \in disc_done : \A ch \in Channels : ~InList(OnlineConnections(ch), w)

\* C4: when one chat POST with AI enabled has been answered, every
\* connection of another user that was registered in the channel has received
\* exactly the two new_message events of that request, the user's message
\* first and the AI's reply second, and no connection of the sender has
\* received a new_message event.
ChatFanOut ==
  \A t \in ReqTasks :
     (/\ response[t].status = 200
      /\ response[t].kind = "chat"
      /\ settings.AI_CHAT_ENABLED)
     => \A c \in Elems(response[t].roster0) :
           LET ids == SelectSeq(NewMessageIds(c),
                                LAMBDA n : \E j \in 1..Len(response[t].messages) :
                                              response[t].messages[j].id = n)
           IN  IF response[t].users0[c].user_id = response[t].uid
               THEN ids = <<>>
               ELSE /\ Len(response[t].messages) = 2
                    /\ response[t].messages[1].message_type = "user"
                    /\ response[t].messages[2].message_type = "ai"
                    /\ ids = <<response[t].messages[1].id,
                               response[t].messages[2].id>>

\* C5: when a broadcast in which the send to some peer failed returns, the
\* failed peer is in no roster, and every other connection of the roster
\* that is not excluded has been sent the event.
FailedSendIsolated ==
  \A t \in Tasks :
     (/\ stack[t] # <<>>
      /\ LoopDone(Top(t))
      /\ Top(t).rem = <<>>
      /\ Top(t).failed # {})
     => /\ \A p \in Top(t).failed :
              \A ch \in DOMAIN active_connections : ~InList(active_connections[ch], p)
        /\ \A c \in Elems(Top(t).snap) \ Top(t).failed :
              ~(c = Top(t).exws \/ ever_reg[c].user_id = Top(t).exuid)
              => c \in Top(t).tried

\* a request of the two-row pipeline has been answered after the AI raised,
\* every commit of the store having succeeded
AnsweredAfterRaise(t) ==
  /\ response[t].status = 200
  /\ response[t].kind \in {"chat", "upload"}
  /\ response[t].raised
  /\ ~response[t].commit_failed

\* C7: when the AI provider raised in process_channel_message or
\* process_file_upload, the user's row is in the store and is the first
\* element of the returned list and of the broadcast list.
UserMessageSurvives ==
  \A t \in ReqTasks :
     AnsweredAfterRaise(t)
     => /\ response[t].messages # <<>>
        /\ response[t].bcasts # <<>>
        /\ LET m == response[t].messages[1]
           IN  /\ m.message_type = "user"
               /\ m.user_id = response[t].uid
               /\ response[t].bcasts[1].id = m.id
               /\ \E i \in 1..Len(store) :
                     /\ store[i].id = m.id
                     /\ store[i].message_type = "user"
                     /\ store[i].user_id = response[t].uid
                     /\ store[i].channel_id = response[t].ch

UserMessageSurvivesWitness ==
  \E t \in ReqTasks :
     /\ AnsweredAfterRaise(t)
     /\ response[t].kind = "upload"
     /\ Len(store) = 2

\* the fallback text of each handler
Apology(kind) ==
  IF kind = "upload" THEN "upload_apology_with_error" ELSE "apology_with_error"

DisabledSkipsResponder ==
  ~settings.AI_CHAT_ENABLED
  => /\ ai_calls = 0
     /\ \A i \in 1..Len(store) :
           store[i].message_type = "user" /\ store[i].response = "None"
     /\ \A t \in ReqTasks :
           response[t].status = 200 => Len(response[t].messages) <= 1

\* C10: every row written for a channel is either a user row holding only
\* the user's text or an AI row of user -1 holding only the reply.
TwoRowsPerTurn ==
  \A i \in 1..Len(store) :
     \/ /\ store[i].message_type = "user"
        /\ store[i].user_id \in Users
        /\ store[i].response = "None"
     \/ /\ store[i].message_type = "ai"
        /\ store[i].user_id = -1
        /\ store[i].response = "None"


\* the position of a message dict in the order the broadcasts were called
IssuePos(m) == CHOOSE i \in 1..Len(issued) :
                  issued[i] = m /\ \A j \in 1..(i-1) : issued[j] # m

StalledPeerPruned ==
  \A t \in Tasks : \A c \in WS :
     (/\ stack[t] # <<>>
      /\ Top(t).fn \in BroadcastFns
      /\ Top(t).pc = "send"
      /\ Top(t).target = c
      /\ c \in stalled)
     ~> ~Registered(c)

\* C13: a broadcast never raises to its caller because of a failed peer send
\* (every send sits in a try whose handler only marks the connection), and
\* when its loop is over, also inside a prune that ran into further failed
\* sends, it has attempted every connection of the roster at the call that
\* is not excluded.
BroadcastAttemptsAll ==
  \A t \in Tasks : \A i \in 1..Len(stack[t]) :
     LET f == stack[t][i]
     IN  LoopDone(f)
         => \A c \in Elems(f.snap) :
               (c # f.exws /\ ever_reg[c].user_id # f.exuid)
               => c \in f.tried \cup f.failed

\* C14: when the user_joined broadcast of a connect is over and no send has
\* failed, every other connection registered in the channel has been sent
\* the user_joined event of the new connection, and the new connection has
\* not been sent it.
JoinAnnounced ==
  \A t \in WS : \A i \in 1..Len(stack[t]) :
     LET f == stack[t][i]
     IN  (LoopDone(f) /\ f.msg.type = "user_joined" /\ f.failed = {})
         => /\ f.exws \notin f.tried
            /\ \A c \in Elems(f.snap) \ {f.exws} :
                  (Registered(c) /\ connection_users[c].channel_id = f.ch)
                  => c \in f.tried

\* the handler of t was entered with a token that names no user
PresentedInvalid(t) ==
  /\ stack[t] # <<>>
  /\ stack[t][Len(stack[t])].fn = "websocket_endpoint"
  /\ stack[t][Len(stack[t])].pc # "start"
  /\ stack[t][Len(stack[t])].tok \notin ValidTokens

\* the handshake of t was turned down for want of a token
TurnedDownUnheard(t) == stack[t] = <<>> /\ closed_code[t] = 1008

\* C15 as stated: a WebSocket attempt whose credential is invalid or missing
\* is closed with the authentication-failure close code 4001.
RejectedWithAuthCode ==
  \A t \in WS :
     (stack[t] = <<>> /\ t \notin DOMAIN ever_reg) => closed_code[t] = 4001

\* C15 (amended): an attempt with an invalid credential is never registered,
\* causes no user_joined and no user_left broadcast, and is closed by the
\* handler with code 4001 before the handler ends; an attempt without a
\* credential never enters the handler, so it is never registered and
\* causes no broadcast either, but its close code is not 4001.
RejectedNeverRegistered ==
  \A t \in WS :
     /\ PresentedInvalid(t)
        => /\ t \notin DOMAIN ever_reg
           /\ ~Registered(t)
           /\ left_calls[t] = 0
           /\ Top(t).fn \in {"websocket_endpoint", "disconnect"}
           /\ stack[t][Len(stack[t])].pc \in {"close", "finally", "end"}
           /\ stack[t][Len(stack[t])].pc \in {"finally", "end"}
              => closed_code[t] = 4001
     /\ TurnedDownUnheard(t)
        => /\ t \notin DOMAIN ever_reg
           /\ ~Registered(t)
           /\ left_calls[t] = 0

\* an attempt with an invalid token has been closed and its handler is past
\* the finally clause, while another connection is registered
RejectedNeverRegisteredWitness ==
  \E t \in WS :
     /\ PresentedInvalid(t)
     /\ Top(t).fn = "websocket_endpoint" /\ Top(t).pc = "end"
     /\ closed_code[t] = 4001
     /\ \E w \in WS : Registered(w)

\* C16: every event a connection has been sent (user_joined, user_left,
\* new_message, online_users, pong, message_read) carries a type and a
\* timestamp.
EveryEventStamped ==
  \A c \in WS : \A i \in 1..Len(received[c]) :
     /\ received[c][i].type \in {"user_joined", "user_left", "new_message",
                                 "online_users", "pong", "message_read"}
     /\ received[c][i].timestamp

\* a decorated generate_response call of task t has ended
RetryEnded(t) == response[t].status = 0 /\ "attempts" \in DOMAIN response[t]

\* C17: a provider's generate_response makes at most 3 attempts; a
\* configuration error (no API key) fails after exactly one attempt; a
\* transient error is retried until an attempt succeeds or 3 attempts have
\* been made.
RetryPolicy ==
  \A t \in ReqTasks :
     RetryEnded(t)
     => LET r == response[t]
        IN  /\ r.attempts <= 3
            /\ ~r.configured => (r.attempts = 1 /\ r.result = "ValueError")
            /\ r.configured
               => \/ /\ r.result = "ok"
                     /\ r.outs[r.attempts] = "ok"
                     /\ \A i \in 1..(r.attempts - 1) : r.outs[i] = "transient"
                  \/ /\ r.result # "ok"
                     /\ r.attempts = 3
                     /\ \A i \in 1..3 : r.outs[i] = "transient"

\* C18: a chat POST whose message is empty after trimming is rejected before
\* the AI is invoked: no row with such a message is ever persisted and no
\* new_message broadcast carries one.
BlankRejected ==
  /\ \A i \in 1..Len(store) : ~IsBlank(store[i].message)
  /\ \A i \in 1..Len(issued) : ~IsBlank(issued[i].message)

\* C19: when the commit of the AI's reply fails after the user's message was
\* committed, the request is answered with a partial success that holds the
\* user's message only, and the user's row stays in the store.
PartialSuccessOnCommitFailure ==
  \A t \in ReqTasks :
     (response[t].status # 0 /\ response[t].commit_failed)
     => /\ response[t].status = 200
        /\ Len(response[t].messages) = 1
        /\ response[t].messages[1].message_type = "user"
        /\ \E i \in 1..Len(store) :
              /\ store[i].message_type = "user"
              /\ store[i].user_id = response[t].uid
              /\ store[i].channel_id = response[t].ch

\* C20: in every run of the two-row pipeline the user's message is persisted
\* before the AI is invoked, the AI's reply is persisted before any
\* new_message broadcast, and the user's message is broadcast before the
\* reply.
PipelineOrder ==
  \A t \in ReqTasks : \A i \in 1..Len(stack[t]) :
     LET f == stack[t][i]
     IN  f.fn \in {"process_channel_message", "process_file_upload"}
         => /\ f.reply # "None"
               => \E k \in 1..Len(store) :
                     /\ store[k].message_type = "user"
                     /\ f.msgs # <<>> /\ store[k].id = f.msgs[1].id
            /\ response[t].bcasts # <<>>
               => /\ Len(f.msgs) = 2
                  /\ \E k \in 1..Len(store) :
                        store[k].message_type = "ai" /\ store[k].id = f.msgs[2].id
                  /\ response[t].bcasts[1].message_type = "user"

\* C21: a broadcast sends its event only to connections that were in the
\* channel's roster when the broadcast was called; a connection registered
\* while the loop is suspended on a send is not sent the event.
OnlyRosterAtCall ==
  \A t \in Tasks : \A i \in 1..Len(stack[t]) :
     LET f == stack[t][i]
     IN  f.fn \in BroadcastFns => f.tried \subseteq Elems(f.snap)

\* the connection a task is in the middle of a send to, 0 if none
SendingTo(t) ==
  IF stack[t] = <<>> \/ Top(t).pc # "send" THEN 0
  ELSE IF Top(t).fn \in BroadcastFns THEN Top(t).target
  ELSE IF Top(t).fn = "send_personal_message" THEN Top(t).ws
  ELSE 0

\* C22: at any moment at most one task is in the middle of a send to a given
\* connection.
OneSenderPerConnection ==
  \A t, u \in Tasks :
     (t # u /\ SendingTo(t) # 0) => SendingTo(t) # SendingTo(u)

\* the user_joined broadcast of a connect whose own peer is alive has ended
\* its loop and its prune, and the send to some existing peer had failed
JoinHitDeadPeer(t) ==
  /\ stack[t] # <<>>
  /\ LoopDone(Top(t))
  /\ Top(t).rem = <<>>
  /\ Top(t).msg.type = "user_joined"
  /\ Top(t).failed # {}
  /\ Top(t).exws \notin dead

NoEmptyRoster ==
  /\ \A ch \in DOMAIN active_connections : active_connections[ch] # <<>>
  /\ \A ch \in Channels :
        (\A w \in DOMAIN connection_users : connection_users[w].channel_id # ch)
        => /\ ch \notin DOMAIN active_connections
           /\ get_channel_connection_count(ch) = 0

\* the last connection of a channel has been disconnected while another
\* channel still has a connection
NoEmptyRosterWitness ==
  \E w \in disc_done :
     /\ w \in DOMAIN ever_reg
     /\ ever_reg[w].channel_id \notin DOMAIN active_connections
     /\ DOMAIN active_connections # {}

\* the number of positions of the rosters that hold the handle
Occurrences(w) ==
  Cardinality({<<ch, i>> \in (DOMAIN active_connections) \X (1..Cardinality(WS) + 1) :
                  i <= Len(active_connections[ch]) /\ active_connections[ch][i] = w})

\* C25: each registered connection handle appears exactly once in the
\* rosters, in the roster of the channel_id of its metadata entry, and a
\* handle is in a roster if and only if it has a metadata entry.
OneChannelPerConnection ==
  \A w \in WS :
     /\ Registered(w)
        => /\ Occurrences(w) = 1
           /\ connection_users[w].channel_id \in DOMAIN active_connections
           /\ InList(active_connections[connection_users[w].channel_id], w)
     /\ ~Registered(w) => Occurrences(w) = 0

\* two channels have a roster, and a connection has left already
OneChannelPerConnectionWitness ==
  /\ Cardinality(DOMAIN active_connections) = 2
  /\ \E w \in disc_done : w \in DOMAIN ever_reg

\* the frame of the endpoint that serves connection w
Handler(w) == stack[w][Len(stack[w])]

\* C26: every connection in the registry is served by a handler that was
\* given a valid credential, and is registered under the user that
\* credential resolves to.
RegisteredIdentityValidated ==
  \A w \in WS :
     Registered(w)
     => /\ stack[w] # <<>>
        /\ Handler(w).tok \in ValidTokens
        /\ connection_users[w].user_id = TokenUser(Handler(w).tok)

\* C27: a connection leaves the registry only when its own transport has
\* failed or closed: no broadcast of the pipeline's message dictionaries
\* prunes a connection whose peer is alive.
PrunedOnlyIfDead ==
  /\ \A w \in DOMAIN ever_reg : Registered(w) \/ w \in dead
  /\ \A t \in Tasks : \A i \in 1..Len(stack[t]) :
        stack[t][i].fn \in BroadcastFns => stack[t][i].failed \subseteq dead

\* C28: a connection is registered in a channel's roster only if its user is
\* a member of that channel.
RosterOnlyMembers ==
  \A w \in DOMAIN connection_users :
     is_user_member(connection_users[w].channel_id, connection_users[w].user_id)

\* the user rows that carry an uploaded file
FileRows == {i \in 1..Len(store) :
               store[i].message_type = "user" /\ store[i].file_url # "None"}

\* the requests served by upload_file_to_channel that got past its checks
UploadRuns == {t \in ReqTasks :
                 /\ "kind" \in DOMAIN response[t]
                 /\ response[t].kind = "upload"
                 /\ response[t].status \in {0, 200}}

\* C29: every file-upload request persists at most one user row for the
\* file, and exactly one once it is answered, also when process_file_upload
\* fails after it has committed the user's row.
OneFileRowPerUpload ==
  /\ Cardinality(FileRows) <= Cardinality(UploadRuns)
  /\ (\A t \in UploadRuns : response[t].status = 200)
     => Cardinality(FileRows) = Cardinality(UploadRuns)

\* task t runs a disconnect or the broadcast of one
InCascade(t) ==
  /\ stack[t] # <<>>
  /\ Top(t).fn \in {"disconnect"} \cup BroadcastFns

\* C30: the pruning cascade terminates: a task that runs a disconnect or one
\* of its nested broadcasts eventually leaves them all; when a broadcast has
\* finished its prune, every peer whose send failed is in no roster; and a
\* connection that is no longer registered has had exactly one user_left
\* broadcast.
CascadeTerminates ==
  /\ \A t \in WS : InCascade(t) ~> (stack[t] = <<>>)
  /\ [](\A t \in WS :
          (stack[t] # <<>> /\ LoopDone(Top(t)) /\ Top(t).rem = <<>>)
          => \A p \in Top(t).failed :
                /\ ~Registered(p)
                /\ \A ch \in DOMAIN active_connections :
                      ~InList(active_connections[ch], p))
  /\ [](\A w \in WS :
          /\ left_calls[w] <= 1
          /\ ~Registered(w) => left_calls[w] = 1)

\* a disconnect runs inside the prune of the user_left broadcast of another
\* disconnect, and has finished its own broadcast
CascadeTerminatesWitness ==
  \E t \in WS :
     /\ Len(stack[t]) >= 4
     /\ stack[t][1].fn = "disconnect" /\ stack[t][1].pc = "ret"
     /\ stack[t][2].fn = "broadcast_to_channel"
     /\ stack[t][2].msg.type = "user_left"
     /\ stack[t][3].fn = "disconnect"
     /\ stack[t][1].ws # stack[t][3].ws

=============================================================================
